---------------------------- MODULE Spec2Model ----------------------------
(***************************************************************************)
(* A model of InputState (src/src/input.rs), the keystroke buffer of a     *)
(* Vietnamese input method.  A Rust String is modelled as what it is: a    *)
(* sequence of UTF-8 bytes.  String::len counts bytes, chars() decodes     *)
(* them, and a slice at a byte offset that is not a character boundary     *)
(* panics.  A char is its Unicode scalar value.                            *)
(***************************************************************************)
EXTENDS Integers, Sequences, FiniteSets, TLC

VARIABLES buffer, display_buffer, method, enabled, should_track,
          panicked, call, ret, race

vars == <<buffer, display_buffer, method, enabled, should_track,
          panicked, call, ret, race>>

fields == <<buffer, display_buffer, method, enabled, should_track>>

-----------------------------------------------------------------------------
(* Program constants *)

MAX_POSSIBLE_WORD_LENGTH == 10

MAX_DUPLICATE_LENGTH == 4

TypingMethod == {"VNI", "Telex"}

TelexTriggers == {97, 101, 111, 100, 115, 116, 106, 102, 120, 114, 119, 122}

-----------------------------------------------------------------------------
(* Bounds of the model *)

\* push is offered to the model only while display_buffer holds fewer
\* characters than this (pop never shortens display_buffer, so it would
\* otherwise grow without limit).
MaxDisplayLen == 4

\* the keys the host pushes: 'a' and the three-byte a-hook
Chars == {97, 7843}

\* the keys of a typing session without corrections: 'a', 'b', e-acute
TypingChars == {97, 98, 233}

\* the keys the host classifies: a A 1, superscript two, one half
ClassifyChars == {97, 65, 49, 178, 189}

\* the words the host compares buffer with: "a" and a-hook
Words == {<<97>>, <<7843>>}

\* the strings the host hands to replace: "", e-acute, "a" + a-hook
ReplaceStrings == {<<>>, <<233>>, <<97, 7843>>}

-----------------------------------------------------------------------------
(* UTF-8, as String::push, String::pop and str::chars implement it *)

Utf8(c) ==
    IF c < 128 THEN <<c>>
    ELSE IF c < 2048 THEN <<192 + (c \div 64), 128 + (c % 64)>>
    ELSE IF c < 65536
         THEN <<224 + (c \div 4096), 128 + ((c \div 64) % 64), 128 + (c % 64)>>
    ELSE <<240 + (c \div 262144), 128 + ((c \div 4096) % 64),
           128 + ((c \div 64) % 64), 128 + (c % 64)>>

IsContinuation(b) == b >= 128 /\ b < 192

CharWidth(lead) ==
    IF lead < 128 THEN 1
    ELSE IF lead < 224 THEN 2
    ELSE IF lead < 240 THEN 3
    ELSE 4

DecodeChar(bs) ==
    IF Len(bs) = 1 THEN bs[1]
    ELSE IF Len(bs) = 2 THEN (bs[1] - 192) * 64 + (bs[2] - 128)
    ELSE IF Len(bs) = 3
         THEN (bs[1] - 224) * 4096 + (bs[2] - 128) * 64 + (bs[3] - 128)
    ELSE (bs[1] - 240) * 262144 + (bs[2] - 128) * 4096
         + (bs[3] - 128) * 64 + (bs[4] - 128)

RECURSIVE StrChars(_)
\* str::chars: the scalar values of a string, in order
StrChars(s) ==
    IF s = <<>> THEN <<>>
    ELSE LET n == CharWidth(s[1])
         IN  <<DecodeChar(SubSeq(s, 1, n))>> \o StrChars(SubSeq(s, n + 1, Len(s)))

RECURSIVE StringFrom(_)
\* the String holding the given scalar values
StringFrom(cs) ==
    IF cs = <<>> THEN <<>> ELSE Utf8(Head(cs)) \o StringFrom(Tail(cs))

\* String::push
StrPush(s, c) == s \o Utf8(c)

RECURSIVE LastCharStart(_, _)
\* the byte offset (1-based) at which the character ending at byte i starts
LastCharStart(s, i) ==
    IF i <= 1 \/ ~IsContinuation(s[i]) THEN i ELSE LastCharStart(s, i - 1)

\* String::pop: removes the last character, if there is one
StrPop(s) ==
    IF s = <<>> THEN s ELSE SubSeq(s, 1, LastCharStart(s, Len(s)) - 1)

\* str::is_char_boundary, for a 0-based byte offset
IsCharBoundary(s, idx) ==
    \/ idx = 0
    \/ idx = Len(s)
    \/ idx < Len(s) /\ ~IsContinuation(s[idx + 1])

-----------------------------------------------------------------------------
(* usize: UsizeLimbs limbs of 16 bits, least significant first *)

UsizeLimbs == 4

Limb == 2 ^ 16

RECURSIVE ToUsize(_, _)
ToUsize(n, k) ==
    IF k = 0 THEN <<>> ELSE <<n % Limb>> \o ToUsize(n \div Limb, k - 1)

Usize(n) == ToUsize(n, UsizeLimbs)

RECURSIVE SubLimbs(_, _, _)
\* a - b modulo 2^(16 * UsizeLimbs)
SubLimbs(a, b, borrow) ==
    IF a = <<>> THEN <<>>
    ELSE LET d == Head(a) - Head(b) - borrow
         IN  <<d % Limb>> \o SubLimbs(Tail(a), Tail(b), IF d < 0 THEN 1 ELSE 0)

RECURSIVE UsizeLess(_, _)
\* a < b, compared from the most significant limb
UsizeLess(a, b) ==
    IF a = <<>> THEN FALSE
    ELSE LET n == Len(a)
         IN  \/ a[n] < b[n]
             \/ a[n] = b[n] /\ UsizeLess(SubSeq(a, 1, n - 1), SubSeq(b, 1, n - 1))

-----------------------------------------------------------------------------
(* What a call returns *)

Unit == [kind |-> "unit", flag |-> FALSE, limbs |-> Usize(0), text |-> <<>>]

Panic == [kind |-> "panic", flag |-> FALSE, limbs |-> Usize(0), text |-> <<>>]

RetBool(b) == [kind |-> "bool", flag |-> b, limbs |-> Usize(0), text |-> <<>>]

RetUsize(l) == [kind |-> "usize", flag |-> FALSE, limbs |-> l, text |-> <<>>]

RetString(s) == [kind |-> "string", flag |-> FALSE, limbs |-> Usize(0), text |-> s]

RetMethod(m) == [kind |-> "method", flag |-> FALSE, limbs |-> Usize(0), text |-> m]

\* a - b on usize: with overflow checks (a debug build) an underflow panics,
\* without them (a release build) it wraps
UsizeSub(a, b) ==
    IF UsizeLess(a, b)
    THEN {Panic, RetUsize(SubLimbs(a, b, 0))}
    ELSE {RetUsize(SubLimbs(a, b, 0))}

-----------------------------------------------------------------------------
(* InputState: the struct as a record, its methods as operators on it *)

Self == [buffer |-> buffer, display_buffer |-> display_buffer,
         method |-> method, enabled |-> enabled,
         should_track |-> should_track, panicked |-> panicked]

new ==
    [buffer |-> <<>>, display_buffer |-> <<>>, method |-> "Telex",
     enabled |-> TRUE, should_track |-> TRUE, panicked |-> FALSE]

is_enabled(s) == s.enabled

is_tracking(s) == s.should_track

is_buffer_empty(s) == s.buffer = <<>>

\* clear that forgets display_buffer
clear_BufferOnly(s) == [s EXCEPT !.buffer = <<>>]

\* clear that also resumes tracking
clear_ResumesTracking(s) ==
    [s EXCEPT !.buffer = <<>>, !.display_buffer = <<>>, !.should_track = TRUE]

clear(s) == [s EXCEPT !.buffer = <<>>, !.display_buffer = <<>>]

\* new_word that never clears
new_word_NeverClears(s) == [s EXCEPT !.should_track = TRUE]

\* new_word that clears whether or not buffer is empty
new_word_AlwaysClears(s) == [clear(s) EXCEPT !.should_track = TRUE]

\* new_word that forgets to resume tracking
new_word_KeepsTrack(s) == IF s.buffer # <<>> THEN clear(s) ELSE s

new_word(s) ==
    LET s1 == IF s.buffer # <<>> THEN clear(s) ELSE s
    IN  [s1 EXCEPT !.should_track = TRUE]

\* stop_tracking that forgets to clear
stop_tracking_NoClear(s) == [s EXCEPT !.should_track = FALSE]

stop_tracking(s) == [clear(s) EXCEPT !.should_track = FALSE]

toggle_vietnamese(s) == new_word([s EXCEPT !.enabled = ~s.enabled])

\* set_method that keeps the word in progress
set_method_KeepsWord(s, m) == [s EXCEPT !.method = m]

set_method(s, m) == new_word([s EXCEPT !.method = m])

get_method(s) == s.method

\* the members of the Unicode category N above U+007F and below U+0800
UnicodeN ==
    {178, 179, 185, 188, 189, 190} \cup (1632 .. 1641) \cup (1776 .. 1785)
        \cup (1984 .. 1993)

\* char::is_numeric
is_numeric(c) ==
    IF c >= 48 /\ c <= 57 THEN TRUE
    ELSE IF c > 127 THEN c \in UnicodeN
    ELSE FALSE

\* should_transform_keys that ignores the on/off switch
should_transform_keys_IgnoresEnabled(s, c) ==
    IF s.method = "VNI" THEN is_numeric(c) ELSE c \in TelexTriggers

should_transform_keys(s, c) ==
    s.enabled
        /\ IF s.method = "VNI" THEN is_numeric(c) ELSE c \in TelexTriggers

\* vi::vni::transform_buffer and vi::telex::transform_buffer belong to another
\* crate: all that is known here is that they append some string to output.
\* The outputs the model offers: the word unchanged, and one accented letter.
transform_buffer(m, chars) == {StringFrom(chars), StringFrom(<<7843>>)}

\* the Strings transform_keys can return
transform_keys(s) ==
    LET transform_method(chars) == transform_buffer(s.method, chars)
    IN  transform_method(StrChars(s.buffer))

should_send_keyboard_event(s, word) == ~(s.buffer = word)

\* get_backspace_count that measures display_buffer in bytes
get_backspace_count_InBytes(s, is_delete) ==
    LET dp_len == Len(s.display_buffer)
    IN  IF is_delete /\ dp_len >= 1
        THEN {RetUsize(Usize(dp_len))}
        ELSE UsizeSub(Usize(dp_len), Usize(1))

get_backspace_count(s, is_delete) ==
    LET dp_len == Len(StrChars(s.display_buffer))
    IN  IF is_delete /\ dp_len >= 1
        THEN {RetUsize(Usize(dp_len))}
        ELSE UsizeSub(Usize(dp_len), Usize(1))

\* replace that also resumes tracking
replace_ResumesTracking(s, buf) ==
    [s EXCEPT !.display_buffer = buf, !.should_track = TRUE]

replace(s, buf) == [s EXCEPT !.display_buffer = buf]

\* should_stop_tracking that asks for more than MAX_DUPLICATE_LENGTH bytes
should_stop_tracking_OffByOne(s) ==
    LET len == Len(s.buffer)
    IN  IF len > MAX_DUPLICATE_LENGTH
        THEN IF ~IsCharBoundary(s.buffer, len - MAX_DUPLICATE_LENGTH)
             THEN "panic"
             ELSE LET buf   == SubSeq(s.buffer, len - MAX_DUPLICATE_LENGTH + 1, len)
                      cs    == StrChars(buf)
                      first == cs[1]
                  IN  IF \A i \in 1 .. Len(cs) : cs[i] = first
                      THEN "true" ELSE "false"
        ELSE "false"

\* "true", "false", or "panic" when the slice starts inside a character
should_stop_tracking(s) ==
    LET len == Len(s.buffer)
    IN  IF len >= MAX_DUPLICATE_LENGTH
        THEN IF ~IsCharBoundary(s.buffer, len - MAX_DUPLICATE_LENGTH)
             THEN "panic"
             ELSE LET buf   == SubSeq(s.buffer, len - MAX_DUPLICATE_LENGTH + 1, len)
                      cs    == StrChars(buf)
                      first == cs[1]
                  IN  IF \A i \in 1 .. Len(cs) : cs[i] = first
                      THEN "true" ELSE "false"
        ELSE "false"

\* push without the length guard
push_Unguarded(s, c) ==
    LET s1 == [s EXCEPT !.buffer = StrPush(s.buffer, c),
                        !.display_buffer = StrPush(s.display_buffer, c)]
        stop == should_stop_tracking(s1)
    IN  IF stop = "panic" THEN [s1 EXCEPT !.panicked = TRUE]
        ELSE IF stop = "true" THEN stop_tracking(s1)
        ELSE s1

push(s, c) ==
    IF Len(s.buffer) <= MAX_POSSIBLE_WORD_LENGTH
    THEN LET s1 == [s EXCEPT !.buffer = StrPush(s.buffer, c),
                             !.display_buffer = StrPush(s.display_buffer, c)]
             stop == should_stop_tracking(s1)
         IN  IF stop = "panic" THEN [s1 EXCEPT !.panicked = TRUE]
             ELSE IF stop = "true" THEN stop_tracking(s1)
             ELSE s1
    ELSE s

\* pop that never starts a new word
pop_NoNewWord(s) == [s EXCEPT !.buffer = StrPop(s.buffer)]

\* pop that starts a new word whatever is left
pop_AlwaysNewWord(s) == new_word([s EXCEPT !.buffer = StrPop(s.buffer)])

pop(s) ==
    LET s1 == [s EXCEPT !.buffer = StrPop(s.buffer)]
    IN  IF s1.buffer = <<>> THEN new_word(s1) ELSE s1

-----------------------------------------------------------------------------
(* The calls the host makes on INPUT_STATE, one at a time *)

\* The record of a call: its name, its arguments (c, b, m, word: those the
\* method has; c is 0 when it has none), the struct as the call found it, and,
\* for a pop that directly follows a push, that push's character and the
\* buffer it found.
Call(op, c, b, m) ==
    [op |-> op, c |-> c, b |-> b, m |-> m, word |-> <<>>, pre |-> Self,
     prev |-> IF op = "pop" /\ call.op = "push"
              THEN <<call.c, call.pre.buffer>> ELSE <<>>]

\* the call record of construction
Constructed ==
    [op |-> "new", c |-> 0, b |-> FALSE, m |-> new.method, word |-> <<>>,
     pre |-> new, prev |-> <<>>]

\* race follows a clear() that is not run as one step: phase is "mid" between
\* its two statements (lines 149 and 150) and "done" right after the second;
\* entry is the struct that clear found, n the calls made meanwhile and mid
\* the call, when there was exactly one (n = 2 stands for two or more, and
\* entry and mid are then forgotten).  It is "none" otherwise.
NoRace == [phase |-> "none", entry |-> new, n |-> 0, mid |-> Constructed]

\* race after the call cl, made as one step
RaceAfter(cl) ==
    IF race.phase = "mid"
    THEN IF race.n = 0
         THEN [race EXCEPT !.n = 1, !.mid = cl]
         ELSE [NoRace EXCEPT !.phase = "mid", !.n = 2]
    ELSE NoRace

\* a &mut self method ran and left the struct as s
Mutate(s, cl) ==
    /\ ~panicked
    /\ buffer' = s.buffer
    /\ display_buffer' = s.display_buffer
    /\ method' = s.method
    /\ enabled' = s.enabled
    /\ should_track' = s.should_track
    /\ panicked' = s.panicked
    /\ call' = cl
    /\ ret' = IF s.panicked THEN Panic ELSE Unit
    /\ race' = RaceAfter(cl)

\* a &self method ran and returned r
Observe(r, cl) ==
    /\ ~panicked
    /\ UNCHANGED fields
    /\ panicked' = (r.kind = "panic")
    /\ call' = cl
    /\ ret' = r
    /\ race' = RaceAfter(cl)

Init ==
    /\ buffer = new.buffer
    /\ display_buffer = new.display_buffer
    /\ method = new.method
    /\ enabled = new.enabled
    /\ should_track = new.should_track
    /\ panicked = new.panicked
    /\ call = Constructed
    /\ ret = Unit
    /\ race = NoRace

NewWord == Mutate(new_word(Self), Call("new_word", 0, FALSE, method))

StopTracking ==
    Mutate(stop_tracking(Self), Call("stop_tracking", 0, FALSE, method))

ToggleVietnamese ==
    Mutate(toggle_vietnamese(Self),
           Call("toggle_vietnamese", 0, FALSE, method))

SetMethod(m) == Mutate(set_method(Self, m), Call("set_method", 0, FALSE, m))

Clear == Mutate(clear(Self), Call("clear", 0, FALSE, method))

Push(c) == Mutate(push(Self, c), Call("push", c, FALSE, method))

Pop == Mutate(pop(Self), Call("pop", 0, FALSE, method))

Replace(buf) == Mutate(replace(Self, buf), Call("replace", 0, FALSE, method))

ShouldTransformKeys(c) ==
    Observe(RetBool(should_transform_keys(Self, c)),
            Call("should_transform_keys", c, FALSE, method))

IsEnabled == Observe(RetBool(is_enabled(Self)), Call("is_enabled", 0, FALSE, method))

IsTracking ==
    Observe(RetBool(is_tracking(Self)), Call("is_tracking", 0, FALSE, method))

IsBufferEmpty ==
    Observe(RetBool(is_buffer_empty(Self)),
            Call("is_buffer_empty", 0, FALSE, method))

GetMethod ==
    Observe(RetMethod(get_method(Self)), Call("get_method", 0, FALSE, method))

TransformKeys ==
    \E output \in transform_keys(Self) :
        Observe(RetString(output), Call("transform_keys", 0, FALSE, method))

ShouldSendKeyboardEvent(word) ==
    Observe(RetBool(should_send_keyboard_event(Self, word)),
            [Call("should_send_keyboard_event", 0, FALSE, method)
                EXCEPT !.word = word])

GetBackspaceCount(is_delete) ==
    \E r \in get_backspace_count(Self, is_delete) :
        Observe(r, Call("get_backspace_count", 0, is_delete, method))

Next ==
    \/ NewWord
    \/ StopTracking
    \/ ToggleVietnamese
    \/ \E m \in TypingMethod : SetMethod(m)
    \/ Clear
    \/ \E c \in Chars :
           Len(StrChars(display_buffer)) < MaxDisplayLen /\ Push(c)
    \/ Pop
    \/ \E buf \in ReplaceStrings : Replace(StringFrom(buf))
    \/ \E c \in ClassifyChars : ShouldTransformKeys(c)
    \/ \E d \in BOOLEAN : GetBackspaceCount(d)
    \/ IsEnabled
    \/ IsTracking
    \/ IsBufferEmpty
    \/ GetMethod
    \/ TransformKeys
    \/ \E word \in Words : ShouldSendKeyboardEvent(StringFrom(word))

Spec == Init /\ [][Next]_vars

\* INPUT_STATE is a static mut without a lock.  When a second context uses it,
\* the two statements of clear() are two steps, and the other context's calls
\* (taken here as one step each) can fall between them.

\* line 149: self.buffer.clear()
ClearBuffer ==
    /\ ~panicked
    /\ race.phase # "mid"
    /\ buffer' = <<>>
    /\ call' = Call("clear", 0, FALSE, method)
    /\ ret' = Unit
    /\ race' = [phase |-> "mid", entry |-> Self, n |-> 0, mid |-> Constructed]
    /\ UNCHANGED <<display_buffer, method, enabled, should_track, panicked>>

\* line 150: self.display_buffer.clear()
ClearDisplay ==
    /\ ~panicked
    /\ race.phase = "mid"
    /\ display_buffer' = <<>>
    /\ race' = [race EXCEPT !.phase = "done"]
    /\ UNCHANGED <<buffer, method, enabled, should_track, panicked, call, ret>>

NextConcurrent ==
    \/ ClearBuffer
    \/ ClearDisplay
    \/ \E c \in Chars :
           Len(StrChars(display_buffer)) < MaxDisplayLen /\ Push(c)
    \/ Pop
    \/ NewWord
    \/ StopTracking
    \/ ToggleVietnamese
    \/ \E m \in TypingMethod : SetMethod(m)
    \/ IsBufferEmpty
    \/ \E d \in BOOLEAN : GetBackspaceCount(d)

SpecConcurrent == Init /\ [][NextConcurrent]_vars

\* The host only types and crosses word boundaries: no pop, no replace.
NextTyping ==
    \/ NewWord
    \/ StopTracking
    \/ ToggleVietnamese
    \/ \E m \in TypingMethod : SetMethod(m)
    \/ Clear
    \/ \E c \in TypingChars : Push(c)

SpecTyping == Init /\ [][NextTyping]_vars

-----------------------------------------------------------------------------
(* What the claims speak of *)

\* the last character of a string
LastChar(s) == LET cs == StrChars(s) IN cs[Len(cs)]

\* the MAX_DUPLICATE_LENGTH trailing scalar values exist and are identical
TrailingRun(cs) ==
    /\ Len(cs) >= MAX_DUPLICATE_LENGTH
    /\ \A i \in (Len(cs) - MAX_DUPLICATE_LENGTH + 1) .. Len(cs) : cs[i] = cs[Len(cs)]

\* the length guard of push, on the struct the call found
GuardPasses(s) == Len(s.buffer) <= MAX_POSSIBLE_WORD_LENGTH

\* the last call was a push whose length guard passed
PushedPastGuard == call.op = "push" /\ GuardPasses(call.pre)

\* the buffer that push handed to should_stop_tracking
PushedBuffer == [call.pre EXCEPT !.buffer = StrPush(call.pre.buffer, call.c)]

\* the last call was a pop directly after a push
PopAfterPush == call.op = "pop" /\ call.prev # <<>>

\* C1: buffer never holds more than MAX_POSSIBLE_WORD_LENGTH characters.
C1_BufferWithinMaxWordLength ==
    Len(StrChars(buffer)) <= MAX_POSSIBLE_WORD_LENGTH

\* C2: get_backspace_count never fails and returns a value in 0..dp_len,
\* which is 0 when display_buffer is empty, for either value of is_delete.
C2_BackspaceCountNeverUnderflows ==
    call.op = "get_backspace_count" =>
        LET dp_len == Len(StrChars(display_buffer))
        IN  /\ ret.kind = "usize"
            /\ ~UsizeLess(Usize(dp_len), ret.limbs)
            /\ (dp_len = 0 => ret.limbs = Usize(0))

\* C3 as claimed: on a non-empty buffer, push(c) directly followed by pop()
\* leaves buffer as it was before the push.
C3_PushPopRestoresBuffer ==
    (PopAfterPush /\ call.prev[2] # <<>>) => buffer = call.prev[2]

\* C3 as amended: on a non-empty buffer, when push's length guard passes and
\* should_stop_tracking() returns false once c is appended, push(c) directly
\* followed by pop() leaves buffer as it was before the push.
C3_PushPopRestoresBufferWhenAppended ==
    (/\ PopAfterPush
     /\ call.prev[2] # <<>>
     /\ Len(call.prev[2]) <= MAX_POSSIBLE_WORD_LENGTH
     /\ should_stop_tracking([call.pre EXCEPT
                                  !.buffer = StrPush(call.prev[2], call.prev[1])])
            = "false")
        => buffer = call.prev[2]

\* a pop undid a push of a multi-byte character onto a non-empty buffer
C3_Witness ==
    /\ PopAfterPush
    /\ call.prev[2] # <<>>
    /\ call.prev[1] > 127
    /\ call.pre.buffer = StrPush(call.prev[2], call.prev[1])
    /\ buffer = call.prev[2]

\* C4: a push whose length guard passes empties both buffers and stops
\* tracking when the last 4 characters of buffer, c included, are identical;
\* otherwise it leaves should_track alone and c is the last character of
\* both buffers.
C4_PushStopsExactlyOnFourIdentical ==
    PushedPastGuard =>
        IF TrailingRun(Append(StrChars(call.pre.buffer), call.c))
        THEN /\ ~panicked
             /\ buffer = <<>>
             /\ display_buffer = <<>>
             /\ ~should_track
        ELSE /\ ~panicked
             /\ should_track = call.pre.should_track
             /\ buffer # <<>> /\ LastChar(buffer) = call.c
             /\ display_buffer # <<>> /\ LastChar(display_buffer) = call.c

\* C5: should_stop_tracking never fails, and is true exactly when buffer has
\* at least 4 characters (scalar values) and the 4 trailing ones are identical.
C5_ShouldStopTrackingCountsCharacters ==
    PushedPastGuard =>
        should_stop_tracking(PushedBuffer)
            = IF TrailingRun(StrChars(PushedBuffer.buffer)) THEN "true" ELSE "false"

\* C6: after new_word the buffer is empty and tracking is on; enabled and
\* method are as they were.
C6_NewWordStartsFresh ==
    call.op = "new_word" =>
        /\ is_buffer_empty(Self)
        /\ is_tracking(Self)
        /\ enabled = call.pre.enabled
        /\ method = call.pre.method

\* new_word was called mid-word while tracking was off
C6_Witness ==
    /\ call.op = "new_word"
    /\ call.pre.buffer # <<>>
    /\ ~call.pre.should_track

\* C7: after stop_tracking both buffers are empty and tracking is off;
\* enabled and method are as they were.
C7_StopTrackingClears ==
    call.op = "stop_tracking" =>
        /\ buffer = <<>>
        /\ display_buffer = <<>>
        /\ ~is_tracking(Self)
        /\ enabled = call.pre.enabled
        /\ method = call.pre.method

\* stop_tracking was called mid-word, with text on display, while tracking
C7_Witness ==
    /\ call.op = "stop_tracking"
    /\ call.pre.buffer # <<>>
    /\ call.pre.display_buffer # <<>>
    /\ call.pre.should_track

\* C8: while enabled is false, should_transform_keys returns false.
C8_DisabledNeverTransforms ==
    (call.op = "should_transform_keys" /\ ~enabled) => ret = RetBool(FALSE)

\* a key that would trigger was classified while disabled, mid-word and
\* untracked
C8_Witness ==
    /\ call.op = "should_transform_keys"
    /\ ~enabled
    /\ \/ method = "VNI" /\ call.c \in 48 .. 57
       \/ method = "Telex" /\ call.c \in TelexTriggers
    /\ buffer # <<>>
    /\ ~should_track

\* C9: while enabled, should_transform_keys is true under VNI exactly for the
\* decimal digits 0-9, and under Telex exactly for the lowercase letters
\* a e o d s t j f x r w z.
C9_ClassifierMatchesReference ==
    (call.op = "should_transform_keys" /\ enabled) =>
        ret = RetBool(IF method = "VNI"
                      THEN call.c \in 48 .. 57
                      ELSE call.c \in {97, 101, 111, 100, 115, 116, 106, 102,
                                       120, 114, 119, 122})

\* C10: set_method(m) leaves method = m and enabled alone, toggle_vietnamese
\* negates enabled and leaves method alone; after either the buffer is empty
\* and tracking is on.
C10_SwitchAbandonsWord ==
    /\ call.op = "set_method" =>
           /\ method = call.m
           /\ enabled = call.pre.enabled
           /\ buffer = <<>>
           /\ should_track
    /\ call.op = "toggle_vietnamese" =>
           /\ enabled = ~call.pre.enabled
           /\ method = call.pre.method
           /\ buffer = <<>>
           /\ should_track

\* the method was switched mid-word while tracking was off
C10_Witness ==
    /\ call.op = "set_method"
    /\ call.m # call.pre.method
    /\ call.pre.buffer # <<>>
    /\ ~call.pre.should_track

\* C11: with dp_len >= 1 characters (scalar values) in display_buffer,
\* get_backspace_count(true) returns dp_len and get_backspace_count(false)
\* returns dp_len - 1.
C11_BackspaceCountOfShownWord ==
    LET dp_len == Len(StrChars(display_buffer))
    IN  (call.op = "get_backspace_count" /\ dp_len >= 1) =>
            ret = RetUsize(Usize(IF call.b THEN dp_len ELSE dp_len - 1))

\* the count was asked of a display_buffer that replace set to a string with
\* a multi-byte character and a push then extended
C11_Witness ==
    /\ call.op = "get_backspace_count"
    /\ ~call.b
    /\ display_buffer # buffer
    /\ buffer # <<>>
    /\ Len(StrChars(display_buffer)) >= 2
    /\ Len(display_buffer) > Len(StrChars(display_buffer))
    /\ Len(display_buffer) > Len(buffer)
    /\ SubSeq(display_buffer, Len(display_buffer) - Len(buffer) + 1,
              Len(display_buffer)) = buffer

\* C12: without pop and replace, display_buffer equals buffer.
C12_DisplayMirrorsBuffer == display_buffer = buffer

\* a multi-byte word was typed while tracking was off
C12_Witness ==
    /\ call.op = "push"
    /\ ~call.pre.should_track
    /\ Len(StrChars(buffer)) >= 2
    /\ Len(buffer) > Len(StrChars(buffer))
    /\ display_buffer = buffer

\* C13: a push whose length guard fails changes no field, signals no error
\* and does not run the forced-stop heuristic.
C13_DroppedPushChangesNothing ==
    (call.op = "push" /\ ~GuardPasses(call.pre)) =>
        /\ Self = call.pre
        /\ ret = Unit

\* a push was dropped whose character the heuristic would have stopped on
C13_Witness ==
    /\ call.op = "push"
    /\ ~GuardPasses(call.pre)
    /\ should_stop_tracking(PushedBuffer) # "false"
    /\ buffer # <<>>

\* C14: a pop that leaves buffer empty leaves tracking on; a pop that leaves
\* buffer non-empty leaves should_track as it was.
C14_PopToEmptyResumesTracking ==
    call.op = "pop" =>
        IF buffer = <<>>
        THEN should_track
        ELSE should_track = call.pre.should_track

\* pop was called on an empty buffer while tracking was off
C14_Witness ==
    /\ call.op = "pop"
    /\ call.pre.buffer = <<>>
    /\ ~call.pre.should_track
    /\ should_track

\* C15: pop changes neither display_buffer nor enabled nor method.
C15_PopLeavesDisplayAlone ==
    call.op = "pop" =>
        /\ display_buffer = call.pre.display_buffer
        /\ enabled = call.pre.enabled
        /\ method = call.pre.method

\* a pop removed the last character of buffer and display_buffer kept its text
C15_Witness ==
    /\ call.op = "pop"
    /\ call.pre.buffer # <<>>
    /\ buffer = <<>>
    /\ display_buffer # <<>>

\* C16: clear empties both buffers and changes neither should_track nor
\* enabled nor method.
C16_ClearOnlyEmptiesBuffers ==
    call.op = "clear" =>
        /\ buffer = <<>>
        /\ display_buffer = <<>>
        /\ should_track = call.pre.should_track
        /\ enabled = call.pre.enabled
        /\ method = call.pre.method

\* clear was called mid-word while tracking was off and the engine disabled
C16_Witness ==
    /\ call.op = "clear"
    /\ call.pre.buffer # <<>>
    /\ call.pre.display_buffer # <<>>
    /\ ~call.pre.should_track
    /\ ~call.pre.enabled

\* the calls that start a new word
Resuming == {"new_word", "pop", "set_method", "toggle_vietnamese"}

\* C17: once should_track is false, every call other than new_word, a pop
\* that leaves buffer empty, set_method and toggle_vietnamese leaves it
\* false; tracking resumes only through those four, with buffer empty.
C17_UntrackedUntilNewWord ==
    ~call.pre.should_track =>
        /\ call.op \notin Resuming => ~should_track
        /\ (call.op = "pop" /\ buffer # <<>>) => ~should_track
        /\ should_track => (call.op \in Resuming /\ buffer = <<>>)

\* a word typed while tracking was off ran into a second forced stop
C17_Witness ==
    /\ call.op = "push"
    /\ ~call.pre.should_track
    /\ call.pre.buffer # <<>>
    /\ buffer = <<>>
    /\ ~should_track

\* the struct after the call cl, made on the struct s
Applied(cl, s) ==
    CASE cl.op = "push" -> push(s, cl.c)
      [] cl.op = "pop" -> pop(s)
      [] cl.op = "new_word" -> new_word(s)
      [] cl.op = "stop_tracking" -> stop_tracking(s)
      [] cl.op = "toggle_vietnamese" -> toggle_vietnamese(s)
      [] cl.op = "set_method" -> set_method(s, cl.m)
      [] OTHER -> s

\* C18: clear is atomic for the other contexts.  No call finds the state in
\* which clear has emptied buffer and not yet display_buffer; and when one
\* call falls inside a clear, the two buffers end as one of the two
\* sequential orders of that call and the clear leaves them.
C18_ClearIsAtomic ==
    /\ (race.phase = "mid" /\ race.n = 1 /\ race.entry.buffer # <<>>) =>
           ~(call.pre.buffer = <<>> /\ call.pre.display_buffer # <<>>)
    /\ (race.phase = "done" /\ race.n = 1) =>
           LET first == clear(Applied(race.mid, race.entry))
               last  == Applied(race.mid, clear(race.entry))
           IN  <<buffer, display_buffer>>
                   \in {<<first.buffer, first.display_buffer>>,
                        <<last.buffer, last.display_buffer>>}

\* new_word has just run: called directly, or from set_method,
\* toggle_vietnamese or a pop that emptied buffer
NewWordReturned ==
    \/ call.op \in {"new_word", "set_method", "toggle_vietnamese"}
    \/ call.op = "pop" /\ buffer = <<>>

\* C19 as claimed: after new_word returns, however it was called,
\* display_buffer is empty.
C19_NewWordLeavesDisplayEmpty == NewWordReturned => display_buffer = <<>>

\* C19 as amended: after new_word returns, display_buffer is empty when
\* new_word found buffer non-empty (called directly, or from set_method or
\* toggle_vietnamese), and is what it was when new_word found buffer empty,
\* as it always does when called from pop.
C19_NewWordClearsDisplayOfNonEmptyWord ==
    NewWordReturned =>
        IF call.op # "pop" /\ call.pre.buffer # <<>>
        THEN display_buffer = <<>>
        ELSE display_buffer = call.pre.display_buffer

\* toggle_vietnamese abandoned a word whose text was on display
C19_Witness ==
    /\ call.op = "toggle_vietnamese"
    /\ call.pre.buffer # <<>>
    /\ call.pre.display_buffer # <<>>
    /\ display_buffer = <<>>

\* the scalar values cs hold MAX_DUPLICATE_LENGTH identical ones in a row
HasRun(cs) ==
    \E i \in 1 .. (Len(cs) - MAX_DUPLICATE_LENGTH + 1) :
        \A j \in i .. (i + MAX_DUPLICATE_LENGTH - 1) : cs[j] = cs[i]

\* C20: buffer never holds MAX_DUPLICATE_LENGTH identical characters in a row.
C20_BufferHasNoRun == ~HasRun(StrChars(buffer))

\* a push that would have completed a run cleared buffer and stopped tracking
C20_Witness ==
    /\ call.op = "push"
    /\ call.pre.should_track
    /\ TrailingRun(Append(StrChars(call.pre.buffer), call.c))
    /\ buffer = <<>>
    /\ ~should_track

=============================================================================
